---- MODULE Spec2Model ----
(***************************************************************************)
(* Warehouse inventory tracker (src/main.py, src/models.py,                *)
(* src/schemas.py): session tokens, the API and web identity resolvers,    *)
(* owner-scoped CRUD over products, supplies and inventories, and the      *)
(* stock ledger kept in Product.current_stock.                             *)
(*                                                                         *)
(* Time is counted in ticks, TicksPerSecond to the second, measured from   *)
(* the start of the server process (tokens signed before the start carry   *)
(* a negative expiry).  A password is modelled by its length: the          *)
(* passwords are the strings "a"*n.                                        *)
(***************************************************************************)
EXTENDS Integers, FiniteSets, Sequences, TLC

VARIABLES
    users,        \* users table: id -> [email, hashed_password, full_name]
    products,     \* products table: id -> [sku, name, current_stock, user_id]
    supplies,     \* supplies table: id -> [product_id, quantity, supplier, user_id]
    inventories,  \* inventories table: id -> [name, status, is_successful, user_id]
    nextId,       \* auto-increment counters of the four tables
    now,          \* wall clock, in ticks
    build,        \* which library versions the deployment runs on
    issued,       \* tokens handed out: [token, issued_at, expires_delta] (history)
    txs           \* database sessions of the requests in flight

vars == <<users, products, supplies, inventories, nextId, now, build, issued, txs>>

----------------------------------------------------------------------------
\* Bounds of the model.
MaxProductId == 2
MaxSupplyId == 2
MaxInventoryId == 1
MaxUserId == 3
MaxQty == 1
MaxSmallTtl == 2
MaxIssueAt == 1
MaxTokens == 1
TicksPerSecond == 2

\* Program constants.
ACCESS_TOKEN_EXPIRE_MINUTES == 30
SecondsPerMinute == 60
BcryptMaxBytes == 72
MinPasswordLen == 6

DefaultTtl == ACCESS_TOKEN_EXPIRE_MINUTES * SecondsPerMinute * TicksPerSecond
\* The clock is followed tick by tick for ClockWindow ticks after the start
\* and after each default lifetime, and jumps a whole lifetime in between.
ClockWindow == MaxIssueAt + MaxSmallTtl + TicksPerSecond
MaxNow == DefaultTtl + ClockWindow

AdminEmail == "admin@warehouse.com"
Emails == {AdminEmail, "b@x.io", "c@x.io"}
Skus == {"X1", "X2"}
Suppliers == {"Acme"}
Quantities == (-1)..MaxQty
ValidStatuses == {"pending", "completed", "cancelled"}
StatusInputs == ValidStatuses \cup {"archived"}
PasswordLens == {MinPasswordLen - 1, MinPasswordLen, BcryptMaxBytes, BcryptMaxBytes + 1}
Builds == {"legacy", "current"}

None == 0          \* Python None for a row that .first() did not find
NoSub == "nosub"   \* a payload without "sub"
Unset == "unset"   \* a field absent from the request body
NoDelta == <<>>     \* expires_delta=None; a timedelta of n ticks is <<n>>

Put(f, k, v) == [x \in DOMAIN f \cup {k} |-> IF x = k THEN v ELSE f[x]]
Drop(f, K) == [x \in DOMAIN f \ K |-> f[x]]
Min(a, b) == IF a < b THEN a ELSE b

\* The database and clock as one value, handed to the handlers.
Store == [users |-> users, products |-> products, supplies |-> supplies,
          inventories |-> inventories, nextId |-> nextId, now |-> now,
          build |-> build]

Resp(status, detail, header) == [status |-> status, detail |-> detail, header |-> header]
\* What a handler leaves behind: the database, the response, and the rows
\* it put into the response body or the rendered page.
OutB(S, r, body) == [S |-> S, r |-> r, body |-> body]
Out(S, r) == OutB(S, r, {})

----------------------------------------------------------------------------
\* Credential store.

\* pwd_context.hash: bcrypt reads the first 72 bytes of the password.  The
\* bcrypt of the "current" build refuses a longer password (ValueError),
\* reported here as None.
get_password_hash(S, password) ==
    IF password > BcryptMaxBytes /\ S.build = "current"
    THEN None
    ELSE Min(password, BcryptMaxBytes)

verify_password(S, plain_password, hashed_password) ==
    get_password_hash(S, plain_password) = hashed_password

\* db.query(User).filter(User.email == email).first(): the id, or None.
get_user_by_email(S, email) ==
    LET hits == {u \in DOMAIN S.users : S.users[u].email = email}
    IN  IF hits = {} THEN None ELSE CHOOSE u \in hits : \A v \in hits : u <= v

authenticate_user(S, email, password) ==
    LET user == get_user_by_email(S, email)
    IN  IF user = None \/ ~verify_password(S, password, S.users[user].hashed_password)
        THEN None
        ELSE user

----------------------------------------------------------------------------
\* Token service.  A token is [sig, sub, exp]: exp in whole seconds.

\* jwt.encode turns the datetime "exp" into whole seconds (timegm of the
\* utctimetuple drops the fraction).
ToSeconds(t) == t \div TicksPerSecond

\* "if expires_delta:" is false for None and for timedelta(0) alike.
Truthy(expires_delta) == expires_delta # NoDelta /\ expires_delta[1] # 0

create_access_token(sub, expires_delta, at) ==
    LET expire == IF Truthy(expires_delta)
                  THEN at + expires_delta[1]
                  ELSE at + DefaultTtl
    IN  [sig |-> "ok", sub |-> sub, exp |-> ToSeconds(expire)]

\* A decode that already refuses a token in the second of its expiry.
jwt_decode_inclusive(token, at) ==
    /\ token.sig = "ok"
    /\ ~(token.exp <= ToSeconds(at))

\* jwt.decode: the signature, then "exp" against the clock in whole
\* seconds (exp < now raises ExpiredSignatureError, a JWTError).
jwt_decode(token, at) ==
    /\ token.sig = "ok"
    /\ ~(token.exp < ToSeconds(at))

\* Tokens a client can present: the secret is a literal of the source, so
\* any payload can carry a good signature.
ExpInputs(S) == {ToSeconds(S.now) - 1, ToSeconds(S.now), ToSeconds(S.now + DefaultTtl)}
TokenInputs(S) == [sig : {"ok", "bad"}, sub : Emails \cup {NoSub}, exp : ExpInputs(S)]

NoHeader == [scheme |-> "none"]
Bearer(token) == [scheme |-> "Bearer", credentials |-> token]
HeaderInputs(S) == {NoHeader} \cup {Bearer(t) : t \in TokenInputs(S)}
NoCookie == [sig |-> "none", sub |-> NoSub, exp |-> 0]
CookieInputs(S) == {NoCookie} \cup TokenInputs(S)

----------------------------------------------------------------------------
\* Auth resolver.

\* HTTPBearer() with auto_error left True answers a request without a
\* bearer header itself: 403 in the legacy FastAPI, 401 with a challenge
\* in the current one.  The handler's own "if not credentials" branch is
\* only reached with auto_error=False.
security_scheme(S, header) ==
    IF header.scheme # "Bearer"
    THEN IF S.build = "legacy"
         THEN Resp(403, "Not authenticated", "")
         ELSE Resp(401, "Not authenticated", "WWW-Authenticate: Bearer")
    ELSE Resp(200, "", "")

\* [user, err]: the resolved user id, or None and the error response.
Resolved(user, err) == [user |-> user, err |-> err]

\* A resolver that trusts the accounts it saw at start-up instead of
\* reading the users table.
get_current_user_for_api_cached(S, header) ==
    LET gate == security_scheme(S, header)
        seen == {u \in {1, 2} : header.credentials.sub \in {AdminEmail, "b@x.io"}
                                /\ (u = 1) = (header.credentials.sub = AdminEmail)}
    IN  IF gate.status # 200 THEN Resolved(None, gate)
        ELSE IF ~jwt_decode(header.credentials, S.now) \/ header.credentials.sub = NoSub
        THEN Resolved(None, Resp(401, "Invalid token", ""))
        ELSE IF seen = {} THEN Resolved(None, Resp(401, "User not found", ""))
        ELSE Resolved(CHOOSE u \in seen : TRUE, Resp(200, "", ""))

get_current_user_for_api(S, header) ==
    LET gate == security_scheme(S, header)
    IN  IF gate.status # 200 THEN Resolved(None, gate)
        ELSE LET token == header.credentials
             IN  IF ~jwt_decode(token, S.now) \/ token.sub = NoSub
                 THEN Resolved(None, Resp(401, "Invalid token", ""))
                 ELSE LET user == get_user_by_email(S, token.sub)
                      IN  IF user = None
                          THEN Resolved(None, Resp(401, "User not found", ""))
                          ELSE Resolved(user, Resp(200, "", ""))

get_current_user_for_web(S, cookie) ==
    IF cookie.sig = "none" THEN None
    ELSE IF ~jwt_decode(cookie, S.now) \/ cookie.sub = NoSub THEN None
    ELSE get_user_by_email(S, cookie.sub)

require_auth_for_api(S, header) == get_current_user_for_api(S, header)

require_auth_for_web(S, cookie) ==
    LET user == get_current_user_for_web(S, cookie)
    IN  IF user = None
        THEN Resolved(None, Resp(303, "See Other", "Location: /login-page"))
        ELSE Resolved(user, Resp(200, "", ""))

Redirect(url) == Resp(303, "", url)

----------------------------------------------------------------------------
\* Ownership guard: query(...).filter(id == x, user_id == current_user.id).first()

\* A by-id fetch without the owner filter.
owned_product_any(S, product_id, user) ==
    IF product_id \in DOMAIN S.products /\ user # None THEN product_id ELSE None

owned_product(S, product_id, user) ==
    IF product_id \in DOMAIN S.products /\ S.products[product_id].user_id = user
    THEN product_id ELSE None

owned_supply(S, supply_id, user) ==
    IF supply_id \in DOMAIN S.supplies /\ S.supplies[supply_id].user_id = user
    THEN supply_id ELSE None

owned_inventory(S, inventory_id, user) ==
    IF inventory_id \in DOMAIN S.inventories /\ S.inventories[inventory_id].user_id = user
    THEN inventory_id ELSE None

\* A product list without the owner filter.
ProductsOf_all(S, user) == {<<"product", p>> : p \in DOMAIN S.products}

ProductsOf(S, user) == {<<"product", p>> : p \in {q \in DOMAIN S.products : S.products[q].user_id = user}}
SuppliesOf(S, user) == {<<"supply", p>> : p \in {q \in DOMAIN S.supplies : S.supplies[q].user_id = user}}
InventoriesOf(S, user) == {<<"inventory", p>> : p \in {q \in DOMAIN S.inventories : S.inventories[q].user_id = user}}

\* The unique index on products.sku: a commit that would leave two rows
\* with one sku raises IntegrityError.
SkuTaken(S, sku, except) ==
    \E p \in DOMAIN S.products \ {except} : S.products[p].sku = sku

----------------------------------------------------------------------------
\* Products, JSON API.

read_products_api(S, header) ==
    LET cu == require_auth_for_api(S, header)
    IN  IF cu.user = None THEN Out(S, cu.err)
        ELSE OutB(S, Resp(200, "", ""), ProductsOf(S, cu.user))

read_product_api(S, header, product_id) ==
    LET cu == require_auth_for_api(S, header)
        product == owned_product(S, product_id, cu.user)
    IN  IF cu.user = None THEN Out(S, cu.err)
        ELSE IF product = None THEN Out(S, Resp(404, "Product not found", ""))
        ELSE OutB(S, Resp(200, "", ""), {<<"product", product>>})

InsertProduct(S, name, sku, user) ==
    [S EXCEPT !.products = Put(@, S.nextId.product,
                               [sku |-> sku, name |-> name, current_stock |-> 0,
                                user_id |-> user]),
              !.nextId.product = @ + 1]

create_product_api(S, header, name, sku) ==
    LET cu == require_auth_for_api(S, header)
    IN  IF cu.user = None THEN Out(S, cu.err)
        ELSE IF SkuTaken(S, sku, None) THEN Out(S, Resp(500, "Internal Server Error", ""))
        ELSE OutB(InsertProduct(S, name, sku, cu.user), Resp(200, "", ""),
                  {<<"product", S.nextId.product>>})

update_product_api(S, header, product_id, name, sku) ==
    LET cu == require_auth_for_api(S, header)
        db_product == owned_product(S, product_id, cu.user)
    IN  IF cu.user = None THEN Out(S, cu.err)
        ELSE IF db_product = None THEN Out(S, Resp(404, "Product not found", ""))
        ELSE IF SkuTaken(S, sku, db_product) THEN Out(S, Resp(500, "Internal Server Error", ""))
        ELSE OutB([S EXCEPT !.products[db_product].name = name,
                            !.products[db_product].sku = sku],
                  Resp(200, "", ""), {<<"product", db_product>>})

\* A delete of the product row alone.
DeleteProduct_keep_supplies(S, product_id) ==
    [S EXCEPT !.products = Drop(@, {product_id})]

\* db.delete(product): the relationship Product.supplies cascades
\* "all, delete-orphan", so the product's supplies go with it.
DeleteProduct(S, product_id) ==
    [S EXCEPT !.products = Drop(@, {product_id}),
              !.supplies = Drop(@, {s \in DOMAIN @ : @[s].product_id = product_id})]

delete_product_api(S, header, product_id) ==
    LET cu == require_auth_for_api(S, header)
        db_product == owned_product(S, product_id, cu.user)
    IN  IF cu.user = None THEN Out(S, cu.err)
        ELSE IF db_product = None THEN Out(S, Resp(404, "Product not found", ""))
        ELSE Out(DeleteProduct(S, db_product), Resp(200, "Product deleted successfully", ""))

----------------------------------------------------------------------------
\* Supplies, JSON API: the stock ledger.

read_supplies_api(S, header) ==
    LET cu == require_auth_for_api(S, header)
    IN  IF cu.user = None THEN Out(S, cu.err)
        ELSE OutB(S, Resp(200, "", ""), SuppliesOf(S, cu.user))

\* schemas.SupplyBase.validate_quantity
validate_quantity(quantity) == quantity > 0

\* product.current_stock += quantity; db.add(db_supply); db.commit()
Receive(S, product, quantity, supplier, user) ==
    [S EXCEPT !.products[product].current_stock = @ + quantity,
              !.supplies = Put(@, S.nextId.supply,
                               [product_id |-> product, quantity |-> quantity,
                                supplier |-> supplier, user_id |-> user]),
              !.nextId.supply = @ + 1]

create_supply_api(S, header, product_id, quantity, supplier) ==
    LET cu == require_auth_for_api(S, header)
        product == owned_product(S, product_id, cu.user)
    IN  IF cu.user = None THEN Out(S, cu.err)
        ELSE IF ~validate_quantity(quantity) THEN Out(S, Resp(422, "Quantity must be positive", ""))
        ELSE IF product = None THEN Out(S, Resp(404, "Product not found", ""))
        ELSE OutB(Receive(S, product, quantity, supplier, cu.user), Resp(200, "", ""),
                  {<<"supply", S.nextId.supply>>})

\* A retract that forgets the ledger.
Retract_keep_stock(S, supply, user) == [S EXCEPT !.supplies = Drop(@, {supply})]

\* if product: product.current_stock -= supply.quantity; db.delete(supply); db.commit()
Retract(S, supply, user) ==
    LET product == owned_product(S, S.supplies[supply].product_id, user)
        T == IF product = None THEN S
             ELSE [S EXCEPT !.products[product].current_stock = @ - S.supplies[supply].quantity]
    IN  [T EXCEPT !.supplies = Drop(@, {supply})]

delete_supply_api(S, header, supply_id) ==
    LET cu == require_auth_for_api(S, header)
        supply == owned_supply(S, supply_id, cu.user)
    IN  IF cu.user = None THEN Out(S, cu.err)
        ELSE IF supply = None THEN Out(S, Resp(404, "Supply not found", ""))
        ELSE Out(Retract(S, supply, cu.user), Resp(200, "Supply deleted successfully", ""))

----------------------------------------------------------------------------
\* Inventories, JSON API.

read_inventories_api(S, header) ==
    LET cu == require_auth_for_api(S, header)
    IN  IF cu.user = None THEN Out(S, cu.err)
        ELSE OutB(S, Resp(200, "", ""), InventoriesOf(S, cu.user))

InsertInventory(S, name, status, user) ==
    [S EXCEPT !.inventories = Put(@, S.nextId.inventory,
                                  [name |-> name, status |-> status,
                                   is_successful |-> FALSE, user_id |-> user]),
              !.nextId.inventory = @ + 1]

\* schemas.InventoryCreate: status is Optional[str] = "pending", unchecked.
create_inventory_api(S, header, name, status) ==
    LET cu == require_auth_for_api(S, header)
    IN  IF cu.user = None THEN Out(S, cu.err)
        ELSE OutB(InsertInventory(S, name, IF status = Unset THEN "pending" ELSE status, cu.user),
                  Resp(200, "", ""), {<<"inventory", S.nextId.inventory>>})

\* inventory.dict(exclude_unset=True): every field the body carries is set.
update_inventory_api(S, header, inventory_id, status) ==
    LET cu == require_auth_for_api(S, header)
        db_inventory == owned_inventory(S, inventory_id, cu.user)
    IN  IF cu.user = None THEN Out(S, cu.err)
        ELSE IF db_inventory = None THEN Out(S, Resp(404, "Inventory not found", ""))
        ELSE OutB(IF status = Unset THEN S
                  ELSE [S EXCEPT !.inventories[db_inventory].status = status],
                  Resp(200, "", ""), {<<"inventory", db_inventory>>})

delete_inventory_api(S, header, inventory_id) ==
    LET cu == require_auth_for_api(S, header)
        db_inventory == owned_inventory(S, inventory_id, cu.user)
    IN  IF cu.user = None THEN Out(S, cu.err)
        ELSE IF db_inventory = None THEN Out(S, Resp(404, "Inventory not found", ""))
        ELSE Out([S EXCEPT !.inventories = Drop(@, {db_inventory})],
                 Resp(200, "Inventory deleted successfully", ""))

----------------------------------------------------------------------------
\* Public routes.

read_root(S, cookie) ==
    LET current_user == get_current_user_for_web(S, cookie)
    IN  IF current_user # None
        THEN OutB(S, Resp(200, "index.html", ""),
                  ProductsOf(S, current_user) \cup SuppliesOf(S, current_user)
                      \cup InventoriesOf(S, current_user))
        ELSE Out(S, Resp(200, "index.html", ""))

login_page(S) == Out(S, Resp(200, "login.html", ""))
register_page(S) == Out(S, Resp(200, "register.html", ""))
health_check(S) == Out(S, Resp(200, "healthy", ""))
logout(S) == Out(S, Redirect("/"))

register_from_form(S, email, password, full_name) ==
    IF password < MinPasswordLen
    THEN Out(S, Redirect("/register-page?error=Password+must+be+at+least+6+characters"))
    ELSE IF get_user_by_email(S, email) # None
    THEN Out(S, Redirect("/register-page?error=Email+already+registered"))
    ELSE LET hashed_password == get_password_hash(S, password)
         IN  IF hashed_password = None
             THEN Out(S, Redirect("/register-page?error=Registration+failed+try+again"))
             ELSE Out([S EXCEPT !.users = Put(@, S.nextId.user,
                                              [email |-> email,
                                               hashed_password |-> hashed_password,
                                               full_name |-> full_name]),
                                !.nextId.user = @ + 1],
                      Redirect("/login-page?success=Registration+successful"))

\* pwd_context.verify raises where pwd_context.hash does; neither login
\* handler catches it.
VerifyRaises(S, email, password) ==
    get_user_by_email(S, email) # None /\ get_password_hash(S, password) = None

login_from_form(S, email, password) ==
    LET user == authenticate_user(S, email, password)
    IN  IF VerifyRaises(S, email, password) THEN Out(S, Resp(500, "Internal Server Error", ""))
        ELSE IF user = None THEN Out(S, Redirect("/login-page?error=Invalid+credentials"))
        ELSE OutB(S, Redirect("/?success=Login+successful"),
                  {<<"token", create_access_token(S.users[user].email, NoDelta, S.now)>>})

login_for_access_token(S, username, password) ==
    LET user == authenticate_user(S, username, password)
    IN  IF VerifyRaises(S, username, password) THEN Out(S, Resp(500, "Internal Server Error", ""))
        ELSE IF user = None
        THEN Out(S, Resp(401, "Incorrect username or password", "WWW-Authenticate: Bearer"))
        ELSE OutB(S, Resp(200, "bearer", ""),
                  {<<"token", create_access_token(S.users[user].email, NoDelta, S.now)>>})

----------------------------------------------------------------------------
\* Pages and form routes (session cookie).

products_page(S, cookie) ==
    LET cu == require_auth_for_web(S, cookie)
    IN  IF cu.user = None THEN Out(S, cu.err)
        ELSE OutB(S, Resp(200, "products.html", ""), ProductsOf(S, cu.user))

supplies_page(S, cookie) ==
    LET cu == require_auth_for_web(S, cookie)
    IN  IF cu.user = None THEN Out(S, cu.err)
        ELSE OutB(S, Resp(200, "supplies.html", ""),
                  SuppliesOf(S, cu.user) \cup ProductsOf(S, cu.user))

inventories_page(S, cookie) ==
    LET cu == require_auth_for_web(S, cookie)
    IN  IF cu.user = None THEN Out(S, cu.err)
        ELSE OutB(S, Resp(200, "inventories.html", ""), InventoriesOf(S, cu.user))

create_product_from_form(S, cookie, name, sku) ==
    LET cu == require_auth_for_web(S, cookie)
    IN  IF cu.user = None THEN Out(S, cu.err)
        ELSE IF SkuTaken(S, sku, None)
        THEN Out(S, Redirect("/products-page?error=SKU+already+exists"))
        ELSE Out(InsertProduct(S, name, sku, cu.user),
                 Redirect("/products-page?success=Product+created"))

delete_product_from_form(S, cookie, product_id) ==
    LET cu == require_auth_for_web(S, cookie)
        product == owned_product(S, product_id, cu.user)
    IN  IF cu.user = None THEN Out(S, cu.err)
        ELSE IF product # None
        THEN Out(DeleteProduct(S, product), Redirect("/products-page?success=Product+deleted"))
        ELSE Out(S, Redirect("/products-page?error=Product+not+found"))

\* quantity: int = Form(...) goes into the ledger as it comes.
create_supply_from_form(S, cookie, product_id, quantity, supplier) ==
    LET cu == require_auth_for_web(S, cookie)
        product == owned_product(S, product_id, cu.user)
    IN  IF cu.user = None THEN Out(S, cu.err)
        ELSE IF product = None THEN Out(S, Redirect("/supplies-page?error=Product+not+found"))
        ELSE Out(Receive(S, product, quantity, supplier, cu.user),
                 Redirect("/supplies-page?success=Supply+created"))

delete_supply_from_form(S, cookie, supply_id) ==
    LET cu == require_auth_for_web(S, cookie)
        supply == owned_supply(S, supply_id, cu.user)
    IN  IF cu.user = None THEN Out(S, cu.err)
        ELSE IF supply = None THEN Out(S, Redirect("/supplies-page?error=supply+not+found"))
        ELSE Out(Retract(S, supply, cu.user), Redirect("/supplies-page?success=supply+deleted"))

create_inventory_from_form(S, cookie, name) ==
    LET cu == require_auth_for_web(S, cookie)
    IN  IF cu.user = None THEN Out(S, cu.err)
        ELSE Out(InsertInventory(S, name, "pending", cu.user),
                 Redirect("/inventories-page?success=inventory+created"))

update_inventory_from_form(S, cookie, inventory_id, name, is_successful) ==
    LET cu == require_auth_for_web(S, cookie)
        inventory == owned_inventory(S, inventory_id, cu.user)
    IN  IF cu.user = None THEN Out(S, cu.err)
        ELSE IF inventory = None
        THEN Out(S, Redirect("/inventories-page?error=inventory+not+found"))
        ELSE Out([S EXCEPT !.inventories[inventory].name = name,
                           !.inventories[inventory].is_successful = is_successful],
                 Redirect("/inventories-page?success=inventory+updated"))

update_inventory_status(S, cookie, inventory_id, status) ==
    LET cu == require_auth_for_web(S, cookie)
        inventory == owned_inventory(S, inventory_id, cu.user)
    IN  IF cu.user = None THEN Out(S, cu.err)
        ELSE IF inventory = None
        THEN Out(S, Redirect("/inventories-page?error=Inventory+not+found"))
        ELSE IF status \notin ValidStatuses
        THEN Out(S, Redirect("/inventories-page?error=Invalid+status"))
        ELSE Out([S EXCEPT !.inventories[inventory].status = status],
                 Redirect("/inventories-page?success=Status+updated"))

delete_inventory_from_form(S, cookie, inventory_id) ==
    LET cu == require_auth_for_web(S, cookie)
        inventory == owned_inventory(S, inventory_id, cu.user)
    IN  IF cu.user = None THEN Out(S, cu.err)
        ELSE IF inventory # None
        THEN Out([S EXCEPT !.inventories = Drop(@, {inventory})],
                 Redirect("/inventories-page?success=Inventory+deleted"))
        ELSE Out(S, Redirect("/inventories-page?error=Inventory+not+found"))

----------------------------------------------------------------------------
\* The state after start-up: the database of a deployment in which one
\* account has registered besides the one startup_event seeds.
AdminPasswordLen == 8
Slots == 1..2
Idle == [pc |-> "idle"]

startup_event ==
    (1 :> [email |-> AdminEmail, hashed_password |-> AdminPasswordLen,
           full_name |-> "Administrator"])
    @@ (2 :> [email |-> "b@x.io", hashed_password |-> MinPasswordLen,
              full_name |-> "Bob"])

Init ==
    /\ users = startup_event
    /\ products = <<>>
    /\ supplies = <<>>
    /\ inventories = <<>>
    /\ nextId = [user |-> 3, product |-> 1, supply |-> 1, inventory |-> 1]
    /\ now = 0
    /\ build \in Builds
    /\ issued = {}
    /\ txs = [t \in Slots |-> Idle]

\* Credentials the requests of the model carry: none, a good token of each
\* account, a token with a bad signature, an expired one.
GoodToken(S, email) == create_access_token(email, NoDelta, S.now)
ActTokens(S) ==
    {GoodToken(S, AdminEmail), GoodToken(S, "b@x.io"),
     [GoodToken(S, AdminEmail) EXCEPT !.sig = "bad"],
     [GoodToken(S, AdminEmail) EXCEPT !.exp = ToSeconds(S.now) - 1]}
ActHeaders(S) == {NoHeader} \cup {Bearer(t) : t \in ActTokens(S)}
ActCookies(S) == {NoCookie} \cup ActTokens(S)

ProductIds == 1..MaxProductId
SupplyIds == 1..MaxSupplyId
InventoryIds == 1..MaxInventoryId
Names == {"widget"}

TokensIn(body) == {b[2] : b \in {c \in body : c[1] = "token"}}

\* One request served from start to end by one worker.
Serve(out) ==
    /\ users' = out.S.users
    /\ products' = out.S.products
    /\ supplies' = out.S.supplies
    /\ inventories' = out.S.inventories
    /\ nextId' = out.S.nextId
    /\ issued' = issued \cup {[token |-> t, issued_at |-> now, expires_delta |-> NoDelta] :
                                 t \in TokensIn(out.body)}
    /\ Cardinality(issued') <= MaxTokens
    /\ UNCHANGED <<now, build, txs>>

ReadProductsApi == \E h \in ActHeaders(Store) : Serve(read_products_api(Store, h))
ReadProductApi ==
    \E h \in ActHeaders(Store), p \in ProductIds :
        Serve(read_product_api(Store, h, p))
CreateProductApi ==
    /\ nextId.product <= MaxProductId
    /\ \E h \in ActHeaders(Store), n \in Names, k \in Skus :
        Serve(create_product_api(Store, h, n, k))
UpdateProductApi ==
    \E h \in ActHeaders(Store), p \in ProductIds, n \in Names, k \in Skus :
        Serve(update_product_api(Store, h, p, n, k))
DeleteProductApi ==
    \E h \in ActHeaders(Store), p \in ProductIds :
        Serve(delete_product_api(Store, h, p))
ReadSuppliesApi == \E h \in ActHeaders(Store) : Serve(read_supplies_api(Store, h))
CreateSupplyApi ==
    /\ nextId.supply <= MaxSupplyId
    /\ \E h \in ActHeaders(Store), p \in ProductIds, q \in Quantities, w \in Suppliers :
        Serve(create_supply_api(Store, h, p, q, w))
DeleteSupplyApi ==
    \E h \in ActHeaders(Store), x \in SupplyIds :
        Serve(delete_supply_api(Store, h, x))
ReadInventoriesApi ==
    \E h \in ActHeaders(Store) : Serve(read_inventories_api(Store, h))
CreateInventoryApi ==
    /\ nextId.inventory <= MaxInventoryId
    /\ \E h \in ActHeaders(Store), n \in Names, st \in StatusInputs \cup {Unset} :
        Serve(create_inventory_api(Store, h, n, st))
UpdateInventoryApi ==
    \E h \in ActHeaders(Store), i \in InventoryIds, st \in StatusInputs \cup {Unset} :
        Serve(update_inventory_api(Store, h, i, st))
DeleteInventoryApi ==
    \E h \in ActHeaders(Store), i \in InventoryIds :
        Serve(delete_inventory_api(Store, h, i))

ProductsPage == \E c \in ActCookies(Store) : Serve(products_page(Store, c))
SuppliesPage == \E c \in ActCookies(Store) : Serve(supplies_page(Store, c))
InventoriesPage == \E c \in ActCookies(Store) : Serve(inventories_page(Store, c))
CreateProductFromForm ==
    /\ nextId.product <= MaxProductId
    /\ \E c \in ActCookies(Store), n \in Names, k \in Skus :
        Serve(create_product_from_form(Store, c, n, k))
DeleteProductFromForm ==
    \E c \in ActCookies(Store), p \in ProductIds :
        Serve(delete_product_from_form(Store, c, p))
CreateSupplyFromForm ==
    /\ nextId.supply <= MaxSupplyId
    /\ \E c \in ActCookies(Store), p \in ProductIds, q \in Quantities, w \in Suppliers :
        Serve(create_supply_from_form(Store, c, p, q, w))
DeleteSupplyFromForm ==
    \E c \in ActCookies(Store), x \in SupplyIds :
        Serve(delete_supply_from_form(Store, c, x))
CreateInventoryFromForm ==
    /\ nextId.inventory <= MaxInventoryId
    /\ \E c \in ActCookies(Store), n \in Names :
        Serve(create_inventory_from_form(Store, c, n))
UpdateInventoryFromForm ==
    \E c \in ActCookies(Store), i \in InventoryIds, n \in Names, ok \in BOOLEAN :
        Serve(update_inventory_from_form(Store, c, i, n, ok))
UpdateInventoryStatus ==
    \E c \in ActCookies(Store), i \in InventoryIds, st \in StatusInputs :
        Serve(update_inventory_status(Store, c, i, st))
DeleteInventoryFromForm ==
    \E c \in ActCookies(Store), i \in InventoryIds :
        Serve(delete_inventory_from_form(Store, c, i))

\* Every product and supply route, each request served whole.
Next ==
    \/ ReadProductsApi \/ ReadProductApi \/ CreateProductApi \/ UpdateProductApi
    \/ DeleteProductApi \/ ReadSuppliesApi \/ CreateSupplyApi \/ DeleteSupplyApi
    \/ ProductsPage \/ SuppliesPage \/ CreateProductFromForm \/ DeleteProductFromForm
    \/ CreateSupplyFromForm \/ DeleteSupplyFromForm

Spec == Init /\ [][Next]_vars

\* Every inventory route.
NextInventory ==
    \/ ReadInventoriesApi \/ CreateInventoryApi \/ UpdateInventoryApi \/ DeleteInventoryApi
    \/ InventoriesPage \/ CreateInventoryFromForm \/ UpdateInventoryFromForm
    \/ UpdateInventoryStatus \/ DeleteInventoryFromForm

\* Every protected route.
NextAll == Next \/ NextInventory

SpecAll == Init /\ [][NextAll]_vars

----------------------------------------------------------------------------
\* Accounts, sessions and the clock.

FullNames == {"Ann"}

RegisterFromForm ==
    /\ nextId.user <= MaxUserId
    /\ \E e \in Emails, pw \in PasswordLens, n \in FullNames :
        Serve(register_from_form(Store, e, pw, n))
LoginFromForm ==
    \E e \in Emails, pw \in PasswordLens \cup {AdminPasswordLen} :
        Serve(login_from_form(Store, e, pw))
LoginForAccessToken ==
    \E e \in Emails, pw \in PasswordLens \cup {AdminPasswordLen} :
        Serve(login_for_access_token(Store, e, pw))
Logout == Serve(logout(Store))
ReadRoot == \E c \in ActCookies(Store) \cup {x.token : x \in issued} : Serve(read_root(Store, c))
LoginPage == Serve(login_page(Store))
RegisterPage == Serve(register_page(Store))
HealthCheck == Serve(health_check(Store))

\* A protected request made with a token that was handed out earlier.
ApiWithIssued == \E x \in issued : Serve(read_products_api(Store, Bearer(x.token)))
WebWithIssued == \E x \in issued : Serve(products_page(Store, x.token))

\* A users row deleted in the database (no route does it): the
\* relationships of User cascade to everything the user owns.
RemoveUser ==
    \E u \in DOMAIN users :
        /\ users' = Drop(users, {u})
        /\ products' = Drop(products, {p \in DOMAIN products : products[p].user_id = u})
        /\ supplies' = Drop(supplies, {x \in DOMAIN supplies : supplies[x].user_id = u})
        /\ inventories' = Drop(inventories, {i \in DOMAIN inventories : inventories[i].user_id = u})
        /\ UNCHANGED <<nextId, now, build, issued, txs>>

\* datetime.utcnow() moves on.
Tick ==
    \E d \in {1, DefaultTtl} :
        /\ now + d <= MaxNow
        /\ d = 1 => (now % DefaultTtl) < ClockWindow
        /\ now' = now + d
        /\ UNCHANGED <<users, products, supplies, inventories, nextId, build, issued, txs>>

NextAuth ==
    \/ RegisterFromForm \/ LoginFromForm \/ LoginForAccessToken \/ Logout
    \/ ReadRoot \/ LoginPage \/ RegisterPage \/ HealthCheck
    \/ ApiWithIssued \/ WebWithIssued \/ RemoveUser \/ Tick

SpecAuth == Init /\ [][NextAuth]_vars

\* create_access_token applied to any subject and lifetime.
TtlInputs == {NoDelta} \cup {<<d>> : d \in 0..MaxSmallTtl}

IssueToken ==
    /\ now <= MaxIssueAt
    /\ Cardinality(issued) < MaxTokens
    /\ \E sub \in Emails, d \in TtlInputs :
        issued' = issued \cup {[token |-> create_access_token(sub, d, now),
                                issued_at |-> now, expires_delta |-> d]}
    /\ UNCHANGED <<users, products, supplies, inventories, nextId, now, build, txs>>

NextToken == IssueToken \/ Tick

SpecToken == Init /\ [][NextToken]_vars

----------------------------------------------------------------------------
\* Requests in flight.  A ledger handler makes several round trips to the
\* database in one session: SELECT the supply, SELECT the product, and at
\* commit the flush writes the stock the handler computed (UPDATE products
\* SET current_stock = <value>) with the INSERT or DELETE of the supply.
\* Every statement sees what is committed when it runs.  A store with a
\* stricter isolation level instead fails a commit whose rows another
\* session changed after they were read; the request then ends in 500 and
\* a rollback.

Vias == {"api", "form"}

UserOf(via, cred) ==
    IF via = "api" THEN require_auth_for_api(Store, Bearer(cred)).user
    ELSE require_auth_for_web(Store, cred).user

InFlightCreates == Cardinality({t \in Slots : txs[t].pc = "commit_create"})

\* create_supply_api / create_supply_from_form up to the computed stock.
BeginCreateSupply ==
    \E t \in Slots, via \in Vias, cred \in ActTokens(Store), p \in ProductIds,
       q \in Quantities, w \in Suppliers :
        LET user == UserOf(via, cred)
        IN  /\ txs[t].pc = "idle"
            /\ nextId.supply + InFlightCreates <= MaxSupplyId
            /\ user # None
            /\ via = "api" => validate_quantity(q)
            /\ owned_product(Store, p, user) # None
            /\ txs' = [txs EXCEPT ![t] =
                   [pc |-> "commit_create", user |-> user, supply_id |-> None,
                    product_id |-> p, quantity |-> q, supplier |-> w, found |-> TRUE,
                    read_stock |-> products[p].current_stock,
                    stock |-> products[p].current_stock + q]]
            /\ UNCHANGED <<users, products, supplies, inventories, nextId, now, build, issued>>

\* The rows a session read are no longer what it read.
Conflict(tx) ==
    \/ tx.supply_id # None /\ tx.supply_id \notin DOMAIN supplies
    \/ tx.found /\ tx.product_id \notin DOMAIN products
    \/ tx.found /\ tx.product_id \in DOMAIN products
           /\ products[tx.product_id].current_stock # tx.read_stock

\* UPDATE of a row that is gone matches no row: StaleDataError.
Stale(tx) == tx.found /\ tx.product_id \notin DOMAIN products

Rollback(t) ==
    /\ txs' = [txs EXCEPT ![t] = Idle]
    /\ UNCHANGED <<users, products, supplies, inventories, nextId, now, build, issued>>

\* db.add(db_supply); db.commit() of a receive.
CommitCreateSupply ==
    \E t \in Slots, strict \in BOOLEAN :
        /\ txs[t].pc = "commit_create"
        /\ IF Stale(txs[t]) \/ (strict /\ Conflict(txs[t]))
           THEN Rollback(t)
           ELSE /\ products' = [products EXCEPT ![txs[t].product_id].current_stock = txs[t].stock]
                /\ supplies' = Put(supplies, nextId.supply,
                                   [product_id |-> txs[t].product_id,
                                    quantity |-> txs[t].quantity,
                                    supplier |-> txs[t].supplier, user_id |-> txs[t].user])
                /\ nextId' = [nextId EXCEPT !.supply = @ + 1]
                /\ txs' = [txs EXCEPT ![t] = Idle]
                /\ UNCHANGED <<users, inventories, now, build, issued>>

\* delete_supply_api / delete_supply_from_form: the supply is fetched.
BeginDeleteSupply ==
    \E t \in Slots, via \in Vias, cred \in ActTokens(Store), x \in SupplyIds :
        LET user == UserOf(via, cred)
        IN  /\ txs[t].pc = "idle"
            /\ user # None
            /\ owned_supply(Store, x, user) # None
            /\ txs' = [txs EXCEPT ![t] =
                   [pc |-> "read_product", user |-> user, supply_id |-> x,
                    product_id |-> supplies[x].product_id,
                    quantity |-> supplies[x].quantity, supplier |-> supplies[x].supplier,
                    found |-> FALSE, read_stock |-> 0, stock |-> 0]]
            /\ UNCHANGED <<users, products, supplies, inventories, nextId, now, build, issued>>

\* The product is fetched; if product: product.current_stock -= supply.quantity
ReadProductForDelete ==
    \E t \in Slots :
        LET tx == txs[t]
            product == owned_product(Store, tx.product_id, tx.user)
        IN  /\ tx.pc = "read_product"
            /\ txs' = [txs EXCEPT ![t] =
                   IF product = None THEN [tx EXCEPT !.pc = "commit_delete"]
                   ELSE [tx EXCEPT !.pc = "commit_delete", !.found = TRUE,
                                   !.read_stock = products[product].current_stock,
                                   !.stock = products[product].current_stock - tx.quantity]]
            /\ UNCHANGED <<users, products, supplies, inventories, nextId, now, build, issued>>

\* db.delete(supply); db.commit() of a retract.  A DELETE that matches no
\* row is only warned about.
CommitDeleteSupply ==
    \E t \in Slots, strict \in BOOLEAN :
        /\ txs[t].pc = "commit_delete"
        /\ IF Stale(txs[t]) \/ (strict /\ Conflict(txs[t]))
           THEN Rollback(t)
           ELSE /\ products' = IF txs[t].found
                               THEN [products EXCEPT ![txs[t].product_id].current_stock = txs[t].stock]
                               ELSE products
                /\ supplies' = Drop(supplies, {txs[t].supply_id})
                /\ txs' = [txs EXCEPT ![t] = Idle]
                /\ UNCHANGED <<users, inventories, nextId, now, build, issued>>

\* Receive and retract requests overlapping; products come and go whole.
NextConc ==
    \/ CreateProductApi \/ DeleteProductApi
    \/ BeginCreateSupply \/ CommitCreateSupply
    \/ BeginDeleteSupply \/ ReadProductForDelete \/ CommitDeleteSupply

SpecConc == Init /\ [][NextConc]_vars

----------------------------------------------------------------------------
\* Registrations in flight.  register_from_form looks the email up, hashes
\* the password, and at db.commit() the INSERT meets the unique index on
\* users.email.

\* A registration that leaves the index out.
EmailTaken_unindexed(S, email) == FALSE

\* The unique index on users.email: an INSERT of an email some row holds
\* raises IntegrityError.
EmailTaken(S, email) == \E u \in DOMAIN S.users : S.users[u].email = email

\* register_from_form up to the hashed password.
BeginRegister ==
    \E t \in Slots, e \in Emails, pw \in PasswordLens, n \in FullNames :
        /\ txs[t].pc = "idle"
        /\ nextId.user <= MaxUserId
        /\ ~(pw < MinPasswordLen)
        /\ get_user_by_email(Store, e) = None
        /\ get_password_hash(Store, pw) # None
        /\ txs' = [txs EXCEPT ![t] =
               [pc |-> "commit_register", email |-> e,
                hashed_password |-> get_password_hash(Store, pw), full_name |-> n]]
        /\ UNCHANGED <<users, products, supplies, inventories, nextId, now, build, issued>>

\* db.add(db_user); db.commit(); an exception of the commit is caught and
\* answered with "Registration failed".
CommitRegister ==
    \E t \in Slots :
        /\ txs[t].pc = "commit_register"
        /\ IF EmailTaken(Store, txs[t].email)
           THEN Rollback(t)
           ELSE /\ users' = Put(users, nextId.user,
                                [email |-> txs[t].email,
                                 hashed_password |-> txs[t].hashed_password,
                                 full_name |-> txs[t].full_name])
                /\ nextId' = [nextId EXCEPT !.user = @ + 1]
                /\ txs' = [txs EXCEPT ![t] = Idle]
                /\ UNCHANGED <<products, supplies, inventories, now, build, issued>>

\* Registrations served whole or overlapping, and logins.
NextRegister ==
    \/ RegisterFromForm \/ BeginRegister \/ CommitRegister
    \/ LoginFromForm \/ LoginForAccessToken

SpecRegister == Init /\ [][NextRegister]_vars

----------------------------------------------------------------------------
\* Properties.

RECURSIVE SumQty(_, _)
SumQty(S, ids) ==
    IF ids = {} THEN 0
    ELSE LET x == CHOOSE y \in ids : TRUE
         IN  S.supplies[x].quantity + SumQty(S, ids \ {x})

SuppliesFor(S, p) == {x \in DOMAIN S.supplies : S.supplies[x].product_id = p}

HeaderOf(u) == Bearer(GoodToken(Store, users[u].email))
CookieOf(u) == GoodToken(Store, users[u].email)

\* C1: after any sequence of served receive, retract and product requests,
\* every stored product's current_stock is the sum of the quantities of the
\* supplies stored for it (0 when there are none).
C1_StockEqualsSupplies ==
    \A p \in DOMAIN products :
        products[p].current_stock = SumQty(Store, SuppliesFor(Store, p))

\* One product ever, two supplies received for it, one of them retracted,
\* the other still counted in a stock that is not zero.
C1_Witness ==
    /\ nextId.product = 2 /\ 1 \in DOMAIN products
    /\ nextId.supply = 3 /\ Cardinality(DOMAIN supplies) = 1
    /\ products[1].current_stock # 0

\* Every protected JSON route with every argument, and every page and
\* form route, as served to one credential.
ApiOutcomes(S, h) ==
    {read_products_api(S, h), read_supplies_api(S, h), read_inventories_api(S, h)}
    \cup {read_product_api(S, h, p) : p \in ProductIds}
    \cup {create_product_api(S, h, n, k) : n \in Names, k \in Skus}
    \cup {update_product_api(S, h, a[1], a[2], a[3]) : a \in ProductIds \X Names \X Skus}
    \cup {delete_product_api(S, h, p) : p \in ProductIds}
    \cup {create_supply_api(S, h, a[1], a[2], a[3]) : a \in ProductIds \X Quantities \X Suppliers}
    \cup {delete_supply_api(S, h, x) : x \in SupplyIds}
    \cup {create_inventory_api(S, h, a[1], a[2]) : a \in Names \X (StatusInputs \cup {Unset})}
    \cup {update_inventory_api(S, h, a[1], a[2]) : a \in InventoryIds \X (StatusInputs \cup {Unset})}
    \cup {delete_inventory_api(S, h, i) : i \in InventoryIds}

WebOutcomes(S, c) ==
    {products_page(S, c), supplies_page(S, c), inventories_page(S, c)}
    \cup {create_product_from_form(S, c, n, k) : n \in Names, k \in Skus}
    \cup {delete_product_from_form(S, c, p) : p \in ProductIds}
    \cup {create_supply_from_form(S, c, a[1], a[2], a[3]) : a \in ProductIds \X Quantities \X Suppliers}
    \cup {delete_supply_from_form(S, c, x) : x \in SupplyIds}
    \cup {create_inventory_from_form(S, c, n) : n \in Names}
    \cup {update_inventory_from_form(S, c, a[1], a[2], a[3]) : a \in InventoryIds \X Names \X BOOLEAN}
    \cup {update_inventory_status(S, c, a[1], a[2]) : a \in InventoryIds \X StatusInputs}
    \cup {delete_inventory_from_form(S, c, i) : i \in InventoryIds}

\* The answers user a gets for id e of one kind, against the answers for
\* id f, where every request leaves the database as it was.
SameAnswer(o, q) == o.r = q.r /\ o.body = q.body /\ o.S = Store /\ q.S = Store

ProductAnswersAgree(a, e, f) ==
    /\ SameAnswer(read_product_api(Store, HeaderOf(a), e), read_product_api(Store, HeaderOf(a), f))
    /\ read_product_api(Store, HeaderOf(a), e).r.status = 404
    /\ \A n \in Names, k \in Skus :
        SameAnswer(update_product_api(Store, HeaderOf(a), e, n, k),
                   update_product_api(Store, HeaderOf(a), f, n, k))
    /\ SameAnswer(delete_product_api(Store, HeaderOf(a), e), delete_product_api(Store, HeaderOf(a), f))
    /\ SameAnswer(delete_product_from_form(Store, CookieOf(a), e),
                  delete_product_from_form(Store, CookieOf(a), f))
    /\ \A q \in Quantities, w \in Suppliers :
        /\ SameAnswer(create_supply_api(Store, HeaderOf(a), e, q, w),
                      create_supply_api(Store, HeaderOf(a), f, q, w))
        /\ SameAnswer(create_supply_from_form(Store, CookieOf(a), e, q, w),
                      create_supply_from_form(Store, CookieOf(a), f, q, w))

SupplyAnswersAgree(a, e, f) ==
    /\ SameAnswer(delete_supply_api(Store, HeaderOf(a), e), delete_supply_api(Store, HeaderOf(a), f))
    /\ delete_supply_api(Store, HeaderOf(a), e).r.status = 404
    /\ SameAnswer(delete_supply_from_form(Store, CookieOf(a), e),
                  delete_supply_from_form(Store, CookieOf(a), f))

InventoryAnswersAgree(a, e, f) ==
    /\ \A st \in StatusInputs \cup {Unset} :
        /\ SameAnswer(update_inventory_api(Store, HeaderOf(a), e, st),
                      update_inventory_api(Store, HeaderOf(a), f, st))
        /\ update_inventory_api(Store, HeaderOf(a), e, st).r.status = 404
    /\ SameAnswer(delete_inventory_api(Store, HeaderOf(a), e), delete_inventory_api(Store, HeaderOf(a), f))
    /\ \A n \in Names, ok \in BOOLEAN :
        SameAnswer(update_inventory_from_form(Store, CookieOf(a), e, n, ok),
                   update_inventory_from_form(Store, CookieOf(a), f, n, ok))
    /\ \A st \in StatusInputs :
        SameAnswer(update_inventory_status(Store, CookieOf(a), e, st),
                   update_inventory_status(Store, CookieOf(a), f, st))
    /\ SameAnswer(delete_inventory_from_form(Store, CookieOf(a), e),
                  delete_inventory_from_form(Store, CookieOf(a), f))

\* C3: a by-id read, update or delete (and a receive naming a product) that
\* user a aims at an entity of another user is answered as the same request
\* for an id that does not exist (API: 404), and changes nothing.
C3_CrossTenantIsNotFound ==
    \A a \in DOMAIN users :
        /\ \A e \in DOMAIN products :
            products[e].user_id # a => ProductAnswersAgree(a, e, nextId.product)
        /\ \A e \in DOMAIN supplies :
            supplies[e].user_id # a => SupplyAnswersAgree(a, e, nextId.supply)
        /\ \A e \in DOMAIN inventories :
            inventories[e].user_id # a => InventoryAnswersAgree(a, e, nextId.inventory)

\* One user owns a product, a supply and an inventory, and another user,
\* who owns a product too, aims a request at each of them and is turned away.
C3_Witness ==
    \E a \in DOMAIN users, b \in DOMAIN users :
        /\ a # b
        /\ \E p \in DOMAIN products : products[p].user_id = a
        /\ \E p \in DOMAIN products :
            /\ products[p].user_id = b
            /\ delete_product_api(Store, HeaderOf(a), p).r.status = 404
        /\ \E x \in DOMAIN supplies :
            /\ supplies[x].user_id = b
            /\ delete_supply_api(Store, HeaderOf(a), x).r.status = 404
        /\ \E i \in DOMAIN inventories :
            /\ inventories[i].user_id = b
            /\ delete_inventory_api(Store, HeaderOf(a), i).r.status = 404

\* C4: a request to a protected route without a valid credential reads
\* and changes nothing; a JSON route answers 401, a page or form route
\* redirects (303) to /login-page.
C4_UnauthenticatedIsRefused ==
    /\ \A h \in HeaderInputs(Store) :
        get_current_user_for_api(Store, h).user = None =>
            \A o \in ApiOutcomes(Store, h) :
                o.S = Store /\ o.body = {} /\ o.r.status = 401
    /\ \A c \in CookieInputs(Store) :
        get_current_user_for_web(Store, c) = None =>
            \A o \in WebOutcomes(Store, c) :
                o.S = Store /\ o.body = {} /\ o.r = Resp(303, "See Other", "Location: /login-page")

Expired(token) == token.exp < ToSeconds(now)

\* C5: the API resolver answers 401 with a challenge header when there is
\* no bearer header, 401 InvalidToken for a wrongly signed, expired or
\* subjectless token, 401 UnknownUser when no user has the subject's email,
\* and otherwise returns the user with that email; no other status occurs.
C5_ApiResolverOutcomes ==
    \A h \in HeaderInputs(Store) \cup {Bearer(x.token) : x \in issued} :
        LET res == get_current_user_for_api(Store, h)
        IN  IF h.scheme # "Bearer"
            THEN res.user = None /\ res.err.status = 401
                 /\ res.err.header = "WWW-Authenticate: Bearer"
            ELSE IF h.credentials.sig # "ok" \/ Expired(h.credentials) \/ h.credentials.sub = NoSub
            THEN res.user = None /\ res.err = Resp(401, "Invalid token", "")
            ELSE IF \A u \in DOMAIN users : users[u].email # h.credentials.sub
            THEN res.user = None /\ res.err = Resp(401, "User not found", "")
            ELSE res.user \in DOMAIN users /\ users[res.user].email = h.credentials.sub


\* The lifetime create_access_token gives a token, and the one asked for.
EffectiveTtl(x) == IF Truthy(x.expires_delta) THEN x.expires_delta[1] ELSE DefaultTtl
NominalTtl(x) == IF x.expires_delta = NoDelta THEN DefaultTtl ELSE x.expires_delta[1]
\* The first tick of the whole second after the one t lies in.
NextSecond(t) == (ToSeconds(t) + 1) * TicksPerSecond
NeverAgain(token) ==
    ~jwt_decode(token, now) => \A t2 \in now..MaxNow : ~jwt_decode(token, t2)

\* C6 as stated: a token issued at issued_at with lifetime t (30 minutes
\* when none is given) verifies at every instant before issued_at + t and
\* fails at every instant after it, and never verifies again once it failed.
C6_ExpiryAtTheInstant ==
    \A x \in issued :
        /\ now < x.issued_at + NominalTtl(x) => jwt_decode(x.token, now)
        /\ now > x.issued_at + NominalTtl(x) => ~jwt_decode(x.token, now)
        /\ NeverAgain(x.token)

\* C6 amended: with lifetime t taken as 30 minutes when none or a zero one
\* is given, the token verifies (and carries its subject) at every instant
\* before issued_at + t, still verifies until the whole second holding
\* issued_at + t is over, fails from the next second on, and never verifies
\* again once it failed.
C6_ExpiryAtTheSecond ==
    \A x \in issued :
        /\ x.token.sub \in Emails
        /\ now < x.issued_at + EffectiveTtl(x) => jwt_decode(x.token, now)
        /\ now < NextSecond(x.issued_at + EffectiveTtl(x)) => jwt_decode(x.token, now)
        /\ now >= NextSecond(x.issued_at + EffectiveTtl(x)) => ~jwt_decode(x.token, now)
        /\ NeverAgain(x.token)

\* A token past issued_at + t that still verifies, within the second.
C6_Witness ==
    \E x \in issued :
        /\ now > x.issued_at + EffectiveTtl(x)
        /\ jwt_decode(x.token, now)

NoUserFor(token) == \A u \in DOMAIN users : users[u].email # token.sub

\* C7: every request re-reads the users table: a correctly signed,
\* unexpired token whose subject has no user row resolves to no user (API:
\* 401 UnknownUser and nothing read or changed; web: no user, protected
\* pages redirect to login), and a request is only ever served as a user
\* now stored under the token's subject.
C7_RemovedUserIsNotResolved ==
    \A t \in TokenInputs(Store) \cup {x.token : x \in issued} :
        /\ (jwt_decode(t, now) /\ t.sub # NoSub /\ NoUserFor(t)) =>
            /\ get_current_user_for_api(Store, Bearer(t))
                   = Resolved(None, Resp(401, "User not found", ""))
            /\ get_current_user_for_web(Store, t) = None
            /\ \A o \in ApiOutcomes(Store, Bearer(t)) :
                   o.r = Resp(401, "User not found", "") /\ o.S = Store /\ o.body = {}
            /\ \A o \in WebOutcomes(Store, t) : o.r.status = 303 /\ o.S = Store /\ o.body = {}
        /\ LET a == get_current_user_for_api(Store, Bearer(t)).user
               w == get_current_user_for_web(Store, t)
           IN  /\ a # None => a \in DOMAIN users /\ users[a].email = t.sub
               /\ w # None => w \in DOMAIN users /\ users[w].email = t.sub

\* A token handed out at a login, still unexpired, whose user row is gone.
C7_Witness ==
    \E x \in issued :
        /\ jwt_decode(x.token, now)
        /\ NoUserFor(x.token)

\* C8: a receive with quantity <= 0 is refused on the JSON route and on
\* the form route, creating no supply and changing no stock; so every
\* stored supply has a quantity > 0.
C8_NonPositiveQuantityRefused ==
    /\ \A x \in DOMAIN supplies : supplies[x].quantity > 0
    /\ \A u \in DOMAIN users, p \in ProductIds, q \in Quantities, w \in Suppliers :
        q <= 0 =>
            /\ create_supply_api(Store, HeaderOf(u), p, q, w).S = Store
            /\ create_supply_from_form(Store, CookieOf(u), p, q, w).S = Store

\* C9: an inventory write with a status outside pending, completed,
\* cancelled is refused on every route and leaves the record as it was; so
\* every stored inventory has one of the three statuses.
C9_InvalidStatusRefused ==
    /\ \A i \in DOMAIN inventories : inventories[i].status \in ValidStatuses
    /\ \A u \in DOMAIN users, st \in StatusInputs \ ValidStatuses :
        /\ \A n \in Names : create_inventory_api(Store, HeaderOf(u), n, st).S = Store
        /\ \A i \in InventoryIds :
            /\ update_inventory_api(Store, HeaderOf(u), i, st).S = Store
            /\ update_inventory_status(Store, CookieOf(u), i, st).S = Store

\* C10: a registration with a password shorter than 6 or longer than 72
\* characters is refused before the password is hashed and before anything
\* is written, so no user is created with such a password.
C10_PasswordLengthRefused ==
    \A e \in Emails, pw \in PasswordLens, n \in FullNames :
        (pw < MinPasswordLen \/ pw > BcryptMaxBytes) =>
            LET o == register_from_form(Store, e, pw, n)
            IN  /\ o.S = Store
                /\ o.r # Redirect("/login-page?success=Registration+successful")
                /\ o.r # Redirect("/register-page?error=Registration+failed+try+again")


\* What one retract, served whole, does to supply x of user u: the stock of
\* its product falls by the quantity, nothing else moves, and the same
\* request again finds no supply and changes nothing.
RetractsOnce(o, u, x) ==
    LET p == supplies[x].product_id
    IN  /\ o.S.products = [products EXCEPT ![p].current_stock = @ - supplies[x].quantity]
        /\ o.S.supplies = Drop(supplies, {x})
        /\ delete_supply_api(o.S, HeaderOf(u), x).S = o.S
        /\ delete_supply_from_form(o.S, CookieOf(u), x).S = o.S

C2_Sequential ==
    \A x \in DOMAIN supplies :
        LET u == supplies[x].user_id
        IN  (u \in DOMAIN users /\ supplies[x].product_id \in DOMAIN products) =>
                /\ RetractsOnce(delete_supply_api(Store, HeaderOf(u), x), u, x)
                /\ RetractsOnce(delete_supply_from_form(Store, CookieOf(u), x), u, x)

\* A retract in flight for a supply (of a positive quantity) that another
\* request has deleted meanwhile ends without moving any stock.
C2_InFlight ==
    \A t \in Slots :
        (txs[t].pc = "commit_delete" /\ txs'[t].pc = "idle" /\ txs[t].quantity > 0
            /\ txs[t].supply_id \notin DOMAIN supplies) => products' = products

\* C2: deleting a supply whose product exists lowers that product's stock by
\* exactly the supply's quantity, once: other supplies are untouched, and a
\* repeated or concurrently in-flight delete of the same supply does not
\* lower the stock a second time.
C2_RetractExactlyOnce == [][C2_Sequential /\ C2_InFlight]_vars

UniqueEmails(U) == \A u \in DOMAIN U, v \in DOMAIN U : U[u].email = U[v].email => u = v

\* Every registration for the email of a stored user, served now, is turned
\* away and writes nothing.
ReRegistrationRefused ==
    \A u \in DOMAIN users, pw \in PasswordLens, n \in FullNames :
        LET o == register_from_form(Store, users[u].email, pw, n)
        IN  /\ o.S = Store
            /\ o.r # Redirect("/login-page?success=Registration+successful")

\* C11: once a user is stored under an email, every later registration
\* with that email, and every registration that was already in flight when
\* the first one committed, is rejected; the stored user keeps its password
\* hash and full_name, and no two stored users ever share an email.
C11_EmailRegisteredOnce ==
    [][/\ UniqueEmails(users) /\ UniqueEmails(users')
       /\ ReRegistrationRefused
       /\ \A u \in DOMAIN users : u \in DOMAIN users' /\ users'[u] = users[u]
       /\ \A t \in Slots :
            (txs[t].pc = "commit_register" /\ txs'[t].pc = "idle"
                /\ EmailTaken(Store, txs[t].email)) => users' = users]_vars

\* A registration that found its email free is still in flight after
\* another registration of the same email has committed.
C11_Witness ==
    \E t \in Slots :
        /\ txs[t].pc = "commit_register"
        /\ get_user_by_email(Store, txs[t].email) # None
        /\ nextId.user > 3

UniqueSkus(P) == \A p \in DOMAIN P, q \in DOMAIN P : P[p].sku = P[q].sku => p = q

ClientError(r) == r.status >= 400 /\ r.status <= 499

\* C12: a product create or update whose sku another product (of any user)
\* holds is refused as invalid input (JSON route: a 4xx status; form route:
\* a 303 redirect with a message) and changes nothing; no two stored
\* products ever share a sku.
C12_DuplicateSkuIsInvalidInput ==
    /\ UniqueSkus(products)
    /\ \A u \in DOMAIN users, n \in Names, k \in Skus :
        /\ SkuTaken(Store, k, None) =>
            /\ create_product_api(Store, HeaderOf(u), n, k).S = Store
            /\ ClientError(create_product_api(Store, HeaderOf(u), n, k).r)
            /\ create_product_from_form(Store, CookieOf(u), n, k).S = Store
            /\ create_product_from_form(Store, CookieOf(u), n, k).r
                   = Redirect("/products-page?error=SKU+already+exists")
        /\ \A p \in DOMAIN products :
            (products[p].user_id = u /\ SkuTaken(Store, k, p)) =>
                /\ update_product_api(Store, HeaderOf(u), p, n, k).S = Store
                /\ ClientError(update_product_api(Store, HeaderOf(u), p, n, k).r)

AllIdle(T) == \A t \in Slots : T[t].pc = "idle"

\* Every quantity stored or in flight is positive.
PositiveQuantities ==
    /\ \A x \in DOMAIN supplies : supplies[x].quantity > 0
    /\ \A t \in Slots : txs[t].pc # "idle" => txs[t].quantity > 0

\* C13: when receive and retract requests (of positive quantities) on one
\* product overlap, each commit moves the stock, as it stands at the commit,
\* by the quantity of the request (up for a receive, down for a retract of
\* a supply that is still stored), so that no update is lost; and once the
\* requests have committed every stock is the sum of the supplies stored
\* for the product.
C13_NoLostUpdate ==
    [][PositiveQuantities =>
       /\ \A t \in Slots :
            (txs[t].pc = "commit_create" /\ txs'[t].pc = "idle"
                /\ nextId'.supply # nextId.supply) =>
                products'[txs[t].product_id].current_stock
                    = products[txs[t].product_id].current_stock + txs[t].quantity
       /\ \A t \in Slots :
            (txs[t].pc = "commit_delete" /\ txs'[t].pc = "idle" /\ txs[t].found
                /\ txs[t].supply_id \in DOMAIN supplies
                /\ txs[t].supply_id \notin DOMAIN supplies') =>
                products'[txs[t].product_id].current_stock
                    = products[txs[t].product_id].current_stock - txs[t].quantity
       /\ AllIdle(txs') =>
            \A p \in DOMAIN products' :
                products'[p].current_stock
                    = SumQty([supplies |-> supplies'],
                             {x \in DOMAIN supplies' : supplies'[x].product_id = p})]_vars

\* C14: when requests are served one after another, whatever products,
\* receives and retracts the JSON and form routes accept, no product's
\* current_stock is ever below zero.
C14_StockNeverNegative ==
    \A p \in DOMAIN products : products[p].current_stock >= 0

\* Each supply of S names a stored product of the supply's owner.
NoOrphans(S) ==
    \A x \in DOMAIN S.supplies :
        /\ S.supplies[x].product_id \in DOMAIN S.products
        /\ S.products[S.supplies[x].product_id].user_id = S.supplies[x].user_id

\* C16: when requests are served one after another, every stored supply
\* references a stored product with the same owner, and deleting a product
\* (JSON or form route) removes all of its supplies with it, leaving no
\* supply without its product.
C16_NoOrphanedSupply ==
    /\ NoOrphans(Store)
    /\ \A p \in DOMAIN products :
        LET u == products[p].user_id
            viaApi == delete_product_api(Store, HeaderOf(u), p).S
            viaForm == delete_product_from_form(Store, CookieOf(u), p).S
        IN  /\ p \notin DOMAIN viaApi.products /\ SuppliesFor(viaApi, p) = {}
            /\ NoOrphans(viaApi)
            /\ p \notin DOMAIN viaForm.products /\ SuppliesFor(viaForm, p) = {}
            /\ NoOrphans(viaForm)

\* Two products are stored, one of them with two supplies, and deleting
\* that one takes both supplies along.
C16_Witness ==
    \E p \in DOMAIN products, q \in DOMAIN products :
        /\ p # q
        /\ Cardinality(SuppliesFor(Store, p)) = 2
        /\ delete_product_api(Store, HeaderOf(products[p].user_id), p).S.supplies = <<>>

\* The store with everything user b owns taken out, and the stores in
\* which one product of b carries another sku that nobody holds.
WithoutEntitiesOf(S, b) ==
    [S EXCEPT !.products = Drop(@, {p \in DOMAIN @ : @[p].user_id = b}),
              !.supplies = Drop(@, {x \in DOMAIN @ : @[x].user_id = b}),
              !.inventories = Drop(@, {i \in DOMAIN @ : @[i].user_id = b})]

Resku(S, b) ==
    {[S EXCEPT !.products[p].sku = k] :
        p \in {q \in DOMAIN S.products : S.products[q].user_id = b},
        k \in {j \in Skus : ~SkuTaken(S, j, None)}}

VariantsFor(S, b) == {WithoutEntitiesOf(S, b)} \cup Resku(S, b)

\* What user a owns in S.
ViewOf(S, a) ==
    [products |-> Drop(S.products, {p \in DOMAIN S.products : S.products[p].user_id # a}),
     supplies |-> Drop(S.supplies, {x \in DOMAIN S.supplies : S.supplies[x].user_id # a}),
     inventories |-> Drop(S.inventories,
                          {i \in DOMAIN S.inventories : S.inventories[i].user_id # a})]

\* The same response, the same rows shown, the same effect on a's entities.
Agree(o, q, a) == o.r = q.r /\ o.body = q.body /\ ViewOf(o.S, a) = ViewOf(q.S, a)

\* Some product of user b holds sku k in S or in T.
HeldBy(S, T, b, k) ==
    \/ \E p \in DOMAIN S.products : S.products[p].user_id = b /\ S.products[p].sku = k
    \/ \E p \in DOMAIN T.products : T.products[p].user_id = b /\ T.products[p].sku = k

\* Every request of user a other than a product create or update, served
\* on S and on T.
OtherRequestsAgree(S, T, a) ==
    LET h == HeaderOf(a)
        c == CookieOf(a)
    IN  /\ Agree(read_products_api(S, h), read_products_api(T, h), a)
        /\ Agree(read_supplies_api(S, h), read_supplies_api(T, h), a)
        /\ Agree(read_inventories_api(S, h), read_inventories_api(T, h), a)
        /\ Agree(products_page(S, c), products_page(T, c), a)
        /\ Agree(supplies_page(S, c), supplies_page(T, c), a)
        /\ Agree(inventories_page(S, c), inventories_page(T, c), a)
        /\ Agree(read_root(S, c), read_root(T, c), a)
        /\ \A p \in ProductIds :
            /\ Agree(read_product_api(S, h, p), read_product_api(T, h, p), a)
            /\ Agree(delete_product_api(S, h, p), delete_product_api(T, h, p), a)
            /\ Agree(delete_product_from_form(S, c, p), delete_product_from_form(T, c, p), a)
            /\ \A q \in Quantities, w \in Suppliers :
                /\ Agree(create_supply_api(S, h, p, q, w), create_supply_api(T, h, p, q, w), a)
                /\ Agree(create_supply_from_form(S, c, p, q, w),
                         create_supply_from_form(T, c, p, q, w), a)
        /\ \A x \in SupplyIds :
            /\ Agree(delete_supply_api(S, h, x), delete_supply_api(T, h, x), a)
            /\ Agree(delete_supply_from_form(S, c, x), delete_supply_from_form(T, c, x), a)
        /\ \A n \in Names :
            /\ Agree(create_inventory_from_form(S, c, n), create_inventory_from_form(T, c, n), a)
            /\ \A st \in StatusInputs \cup {Unset} :
                Agree(create_inventory_api(S, h, n, st), create_inventory_api(T, h, n, st), a)
        /\ \A i \in InventoryIds :
            /\ Agree(delete_inventory_api(S, h, i), delete_inventory_api(T, h, i), a)
            /\ Agree(delete_inventory_from_form(S, c, i), delete_inventory_from_form(T, c, i), a)
            /\ \A st \in StatusInputs \cup {Unset} :
                Agree(update_inventory_api(S, h, i, st), update_inventory_api(T, h, i, st), a)
            /\ \A st \in StatusInputs :
                Agree(update_inventory_status(S, c, i, st), update_inventory_status(T, c, i, st), a)
            /\ \A n \in Names, ok \in BOOLEAN :
                Agree(update_inventory_from_form(S, c, i, n, ok),
                      update_inventory_from_form(T, c, i, n, ok), a)

\* The product creates and updates of user a with sku k, served on S and T.
SkuRequestsAgree(S, T, a, k) ==
    \A n \in Names :
        /\ Agree(create_product_api(S, HeaderOf(a), n, k),
                 create_product_api(T, HeaderOf(a), n, k), a)
        /\ Agree(create_product_from_form(S, CookieOf(a), n, k),
                 create_product_from_form(T, CookieOf(a), n, k), a)
        /\ \A p \in ProductIds :
            Agree(update_product_api(S, HeaderOf(a), p, n, k),
                  update_product_api(T, HeaderOf(a), p, n, k), a)

\* C15 as stated: for two stores that differ only in what user b owns,
\* every request of another user a, product creates and updates with any
\* sku included, gets the same response and has the same effect on what a
\* owns.
C15_WritesDoNotInterfere ==
    \A a \in DOMAIN users, b \in DOMAIN users :
        a # b =>
            \A T \in VariantsFor(Store, b) :
                /\ OtherRequestsAgree(Store, T, a)
                /\ \A k \in Skus : SkuRequestsAgree(Store, T, a, k)

\* C15 amended: for two stores with the same id counters that differ only
\* in what user b owns, every request of another user a gets the same
\* response and has the same effect on what a owns, except a product
\* create or update whose sku a product of b holds in one of the two.
C15_WritesDoNotInterfereButSku ==
    \A a \in DOMAIN users, b \in DOMAIN users :
        a # b =>
            \A T \in VariantsFor(Store, b) :
                /\ OtherRequestsAgree(Store, T, a)
                /\ \A k \in Skus :
                    ~HeldBy(Store, T, b, k) => SkuRequestsAgree(Store, T, a, k)

\* User b owns a product, a supply and an inventory, user a owns a product
\* and a supply, and a's receive for its own product is served alike with
\* and without everything b owns.
C15_Witness ==
    \E a \in DOMAIN users, b \in DOMAIN users :
        /\ a # b
        /\ ViewOf(Store, b).products # <<>>
        /\ ViewOf(Store, b).supplies # <<>>
        /\ ViewOf(Store, b).inventories # <<>>
        /\ ViewOf(Store, a).supplies # <<>>
        /\ \E x \in DOMAIN supplies :
            /\ supplies[x].user_id = a
            /\ delete_supply_api(Store, HeaderOf(a), x).r.status = 200
            /\ Agree(delete_supply_api(Store, HeaderOf(a), x),
                     delete_supply_api(WithoutEntitiesOf(Store, b), HeaderOf(a), x), a)

====
